---- MODULE Spec2Model ----
(***************************************************************************)
(* Metropolis Monte-Carlo simulation of the 2D Ising model: the lattice,   *)
(* the single-spin-flip update, the warm-up / sampling driver, the         *)
(* observable estimator and the descending temperature sweep.              *)
(*                                                                         *)
(* Numbers: spins, energies and magnetizations are integers.  Temperatures *)
(* live on an integer grid (k_B = 1, J = 1).  exp(dE/T) is computed as a   *)
(* truncated power series in fixed point (Scale), and the estimator works  *)
(* in fixed point (FP).  A uniform draw u in [0,1) is the fraction         *)
(* u / UDen with u in 0 .. UDen-1.                                         *)
(***************************************************************************)
EXTENDS Integers, Sequences, FiniteSets

(* ------------------------------ bounds --------------------------------- *)
\* largest lattice side N of a configuration
MaxN == 3
\* largest temperature of a configuration's range
MaxT == 4
\* largest temperature step of a configuration
MaxDT == 2
\* largest measurement count M of a configuration
MaxM == 3
\* warm-up attempts W per temperature (1 000 000 in the reference run)
W == 2
\* attempts between two measurements (1000 in the reference run)
Interval == 2
\* seeds of the shared random stream
MaxSeed == 6
\* resolution of a uniform draw: u / UDen, u in 0 .. UDen-1
UDen == 4
\* a single step() is applied to the lattices with at most MaxMinority cells
\* of the minority sign
MaxMinority == 2
\* fixed-point unit of exp, and number of series terms
Scale == 10000
ExpTerms == 40
\* fixed-point unit of the estimator
FP == 100

(* --------------------------- configuration ----------------------------- *)
\* coupling constant
J == 1

VARIABLES
    cfg,            \* SimulationConfig: N, T_max, T_min, dT, M
    pc,             \* position of the program
    rng,            \* state of the shared random stream
    T,              \* temperature being simulated
    lattice,        \* the spin grid: Sites(N) -> {-1, +1}; << >> before creation
    i,              \* warm-up attempts made at this temperature
    k,              \* measurements taken at this temperature
    j,              \* attempts made in the current measurement block
    energies,       \* SampleSeries of total_energy()
    magnetizations, \* SampleSeries of total_magnetization()
    rows,           \* the output table, one ResultRow per temperature
    prev,           \* lattice before the last step() call
    site,           \* site proposed by the last step() call
    u,              \* uniform draw of the last step() call
    steps,          \* step() calls made at this temperature
    inits,          \* random initializations of the lattice so far
    handed          \* lattice left by the previous temperature's driver

vars == << cfg, pc, rng, T, lattice, i, k, j, energies, magnetizations, rows,
           prev, site, u, steps, inits, handed >>

(* ------------------------------ lattice -------------------------------- *)
Spin == {-1, 1}

Sites(n) == (0 .. n - 1) \X (0 .. n - 1)

\* row-major order of the sites
SiteAt(n, x) == << x \div n, x % n >>

\* the four periodic-boundary nearest neighbours of site s
neighbours(n, s) ==
    << << (s[1] + 1) % n, s[2] >>, << (s[1] + n - 1) % n, s[2] >>,
       << s[1], (s[2] + 1) % n >>, << s[1], (s[2] + n - 1) % n >> >>

energy_contribution(l, n, s) ==
    LET nb == neighbours(n, s)
    IN  l[nb[1]] + l[nb[2]] + l[nb[3]] + l[nb[4]]

\* energy change if the spin at s flips sign
deltaE(l, n, s) == 2 * J * l[s] * energy_contribution(l, n, s)

\* the unique nearest-neighbour pairs <ij> of the periodic n x n lattice
Bonds(n) ==
    { p \in { {a, neighbours(n, a)[d]} : a \in Sites(n), d \in 1 .. 4 } :
        Cardinality(p) = 2 }

RECURSIVE SetToSeq(_)
SetToSeq(S) ==
    IF S = {} THEN << >>
    ELSE LET x == CHOOSE y \in S : TRUE IN << x >> \o SetToSeq(S \ {x})

BondSeq == [ n \in 1 .. MaxN |-> SetToSeq(Bonds(n)) ]

BondProduct(l, p) ==
    LET a == CHOOSE x \in p : TRUE
        b == CHOOSE y \in p : y # a
    IN  l[a] * l[b]

RECURSIVE SumBonds(_, _, _)
SumBonds(l, bs, x) ==
    IF x > Len(bs) THEN 0 ELSE BondProduct(l, bs[x]) + SumBonds(l, bs, x + 1)

\* every pair counted from both of its ends
total_energy_both_ends(l, n) == -J * 2 * SumBonds(l, BondSeq[n], 1)

\* H[s] = -J sum_<ij> s_i s_j
total_energy(l, n) == -J * SumBonds(l, BondSeq[n], 1)

RECURSIVE SumSites(_, _, _)
SumSites(l, n, x) ==
    IF x >= n * n THEN 0 ELSE l[SiteAt(n, x)] + SumSites(l, n, x + 1)

\* the first cell left out of the sum
total_magnetization_skip_first(l, n) == SumSites(l, n, 1)

\* sum_i s_i
total_magnetization(l, n) == SumSites(l, n, 0)

(* ------------------------- Metropolis update --------------------------- *)
\* Scale * exp(dE / T) for dE >= 0, T > 0: sum of term_m = term_(m-1) * dE / (T m)
RECURSIVE ExpSeries(_, _, _, _)
ExpSeries(term, m, dE, temp) ==
    IF m > ExpTerms \/ term = 0 THEN 0
    ELSE term + ExpSeries((term * dE) \div (temp * m), m + 1, dE, temp)

ExpPos(dE, temp) == ExpSeries(Scale, 1, dE, temp)

\* u / UDen < exp(-dE / T)
BelowBoltzmann(draw, dE, temp) == draw * ExpPos(dE, temp) < UDen * Scale

\* the comparison with the draw turned around
accept_reversed(dE, temp, draw) ==
    IF dE < 0 THEN TRUE ELSE ~BelowBoltzmann(draw, dE, temp)

\* lower energy: accept; otherwise accept with probability exp(-dE / T)
accept(dE, temp, draw) ==
    IF dE < 0 THEN TRUE ELSE BelowBoltzmann(draw, dE, temp)

\* the whole row of s negated instead of the one cell
flip_row(l, s) == [ c \in DOMAIN l |-> IF c[1] = s[1] THEN -l[c] ELSE l[c] ]

\* the spin at s negated in place
flip(l, s) == [ l EXCEPT ![s] = -l[s] ]

\* one proposed single-spin flip at site s with uniform draw `draw`
step(l, n, temp, s, draw) ==
    IF accept(deltaE(l, n, s), temp, draw) THEN flip(l, s) ELSE l

(* -------------------- single step, any lattice ------------------------- *)
CountOf(l, n, v) == Cardinality({ s \in Sites(n) : l[s] = v })

StepLattices(n) ==
    { l \in [ Sites(n) -> Spin ] :
        CountOf(l, n, -1) <= MaxMinority \/ CountOf(l, n, 1) <= MaxMinority }

InitStep ==
    /\ \E n \in 1 .. MaxN, temp \in 1 .. MaxT :
          /\ cfg = [ N |-> n, T_max |-> temp, T_min |-> temp, dT |-> 1, M |-> 1 ]
          /\ T = temp
          /\ lattice \in StepLattices(n)
    /\ pc = "ready"
    /\ rng = 0
    /\ i = 0 /\ k = 0 /\ j = 0
    /\ energies = << >> /\ magnetizations = << >> /\ rows = << >>
    /\ prev = lattice
    /\ site = << 0, 0 >>
    /\ u = 0
    /\ steps = 0
    /\ inits = 1
    /\ handed = lattice

\* step() with the site and the draw chosen freely
StepAny ==
    /\ pc = "ready"
    /\ \E s \in Sites(cfg.N), draw \in 0 .. UDen - 1 :
          /\ lattice' = step(lattice, cfg.N, T, s, draw)
          /\ site' = s
          /\ u' = draw
    /\ prev' = lattice
    /\ steps' = steps + 1
    /\ pc' = "stepped"
    /\ UNCHANGED << cfg, rng, T, i, k, j, energies, magnetizations, rows,
                    inits, handed >>

NextStep == StepAny

SpecStep == InitStep /\ [][NextStep]_vars

(* --------------------------- random stream ----------------------------- *)
\* the shared generator: one linear congruential stream per run
NextRng(r) == (75 * r + 74) % 65537

RECURSIVE Advance(_, _)
Advance(r, c) == IF c = 0 THEN r ELSE Advance(NextRng(r), c - 1)

\* the raw random bits 0 / 1 stored as spins
random_lattice_bits(n, r) ==
    [ s \in Sites(n) |-> Advance(r, s[1] * n + s[2] + 1) % 2 ]

\* each cell independently +1 or -1, one draw per cell in row-major order
random_lattice(n, r) ==
    [ s \in Sites(n) |->
        IF Advance(r, s[1] * n + s[2] + 1) % 2 = 0 THEN 1 ELSE -1 ]

(* ------------------------ observable estimator ------------------------- *)
RECURSIVE SumSeq(_, _)
SumSeq(xs, x) == IF x > Len(xs) THEN 0 ELSE xs[x] + SumSeq(xs, x + 1)

\* M * (x_t - mean): the deviations, kept exact
Deviation(xs, t) == Len(xs) * xs[t] - SumSeq(xs, 1)

\* sum_t dev_t * dev_(t+lag): M^2 (M - lag) times the lag autocovariance
RECURSIVE LagSum(_, _, _)
LagSum(xs, lag, t) ==
    IF t + lag > Len(xs) THEN 0
    ELSE Deviation(xs, t) * Deviation(xs, t + lag) + LagSum(xs, lag, t + 1)

\* FP * (normalized autocorrelation at `lag`)
Rho(xs, lag) ==
    (FP * Len(xs) * LagSum(xs, lag, 1)) \div ((Len(xs) - lag) * LagSum(xs, 0, 1))

\* FP * tau: the autocorrelations summed until they stop being positive
RECURSIVE TauFrom(_, _)
TauFrom(xs, lag) ==
    IF lag >= Len(xs) \/ Rho(xs, lag) <= 0 THEN 0
    ELSE Rho(xs, lag) + TauFrom(xs, lag + 1)

RECURSIVE Root(_, _, _)
Root(x, lo, hi) ==
    IF hi - lo <= 1 THEN lo
    ELSE LET mid == (lo + hi) \div 2
         IN  IF mid * mid <= x THEN Root(x, mid, hi) ELSE Root(x, lo, mid)

\* floor of the square root
ISqrt(x) == Root(x, 0, 46340)

Mean(xs) == (FP * SumSeq(xs, 1)) \div Len(xs)

\* FP * sqrt(variance / M) * sqrt(2 tau + 1)
InflatedError(xs, tau) ==
    LET m == Len(xs)
    IN  ISqrt(((LagSum(xs, 0, 1) * (2 * tau + FP)) \div (m * m * m * m)) * FP)

\* the estimate of a series that has variance
correlated_estimate(xs) ==
    LET tau == TauFrom(xs, 1)
    IN  [ ok |-> TRUE, mean |-> Mean(xs),
          error |-> InflatedError(xs, tau), tau |-> tau ]

\* no guard: normalizing the autocorrelation of a series without variance
\* divides by zero
estimate_unguarded(xs) ==
    IF LagSum(xs, 0, 1) = 0
    THEN [ ok |-> FALSE, mean |-> Mean(xs), error |-> 0, tau |-> 0 ]
    ELSE correlated_estimate(xs)

\* mean, error and correlation time of a series; ok = no arithmetic error.
\* A series without variance gets error 0 and correlation time 0.
estimate(xs) ==
    IF LagSum(xs, 0, 1) = 0
    THEN [ ok |-> TRUE, mean |-> Mean(xs), error |-> 0, tau |-> 0 ]
    ELSE correlated_estimate(xs)

ResultRow(temp, em, ee) ==
    [ temperature |-> temp,
      mean_magnetization |-> em.mean,
      error_magnetization |-> em.error,
      correlation_time_magnetization |-> em.tau,
      mean_energy |-> ee.mean,
      error_energy |-> ee.error,
      correlation_time_energy |-> ee.tau ]

(* ------------------------- temperature sweep --------------------------- *)
Configs ==
    { c \in [ N : -1 .. MaxN, T_max : -1 .. MaxT, T_min : -1 .. MaxT,
              dT : 1 .. MaxDT, M : -1 .. MaxM ] : c.T_min <= c.T_max }

\* the measurement count not validated
valid_config_no_M(c) == c.N > 0 /\ c.T_min > 0 /\ c.T_max > 0

\* configuration validation: T > 0 over the whole range, N > 0, M > 0
valid_config(c) == c.N > 0 /\ c.M > 0 /\ c.T_min > 0 /\ c.T_max > 0

\* one attempt too many
warmup_done_late(n) == n > W

\* the warm-up ends when the attempt count reaches W
warmup_done(n) == n >= W

\* a measurement block is complete after Interval attempts
block_done(n) == n >= Interval

\* the sampling ends after M measurements
sampling_done(n, m) == n >= m

\* a fresh random lattice at every temperature
warm_start_fresh(l, n, r) == random_lattice(n, r)

\* the lattice the next temperature starts from: the previous one's final state
warm_start(l, n, r) == l

\* the lower end of the range left out
has_next_exclusive(c, temp) == temp - c.dT > c.T_min

\* is there a next temperature in T_max, T_max - dT, ... >= T_min
has_next(c, temp) == temp - c.dT >= c.T_min

Init ==
    /\ cfg \in Configs
    /\ rng \in 1 .. MaxSeed
    /\ pc = "start"
    /\ T = cfg.T_max
    /\ lattice = << >>
    /\ i = 0 /\ k = 0 /\ j = 0
    /\ energies = << >> /\ magnetizations = << >> /\ rows = << >>
    /\ prev = << >>
    /\ site = << 0, 0 >>
    /\ u = 0
    /\ steps = 0
    /\ inits = 0
    /\ handed = << >>

Reject ==
    /\ pc = "start"
    /\ ~valid_config(cfg)
    /\ pc' = "rejected"
    /\ UNCHANGED << cfg, rng, T, lattice, i, k, j, energies, magnetizations,
                    rows, prev, site, u, steps, inits, handed >>

\* the lattice is created once, at random, before the first temperature
InitLattice ==
    /\ pc = "start"
    /\ valid_config(cfg)
    /\ lattice' = random_lattice(cfg.N, rng)
    /\ rng' = Advance(rng, cfg.N * cfg.N)
    /\ inits' = inits + 1
    /\ T' = cfg.T_max
    /\ pc' = "warmup"
    /\ UNCHANGED << cfg, i, k, j, energies, magnetizations, rows, prev, site,
                    u, steps, handed >>

\* step() on the shared stream: two draws select the site, one is the uniform
Metropolis ==
    LET r1 == NextRng(rng)
        r2 == NextRng(r1)
        r3 == NextRng(r2)
        s  == << r1 % cfg.N, r2 % cfg.N >>
    IN  /\ lattice' = step(lattice, cfg.N, T, s, r3 % UDen)
        /\ prev' = lattice
        /\ site' = s
        /\ u' = r3 % UDen
        /\ rng' = r3
        /\ steps' = steps + 1

WarmupStep ==
    /\ pc = "warmup"
    /\ ~warmup_done(i)
    /\ Metropolis
    /\ i' = i + 1
    /\ UNCHANGED << cfg, pc, T, k, j, energies, magnetizations, rows, inits,
                    handed >>

StartSampling ==
    /\ pc = "warmup"
    /\ warmup_done(i)
    /\ pc' = "sampling"
    /\ k' = 0 /\ j' = 0
    /\ UNCHANGED << cfg, rng, T, lattice, i, energies, magnetizations, rows,
                    prev, site, u, steps, inits, handed >>

SampleStep ==
    /\ pc = "sampling"
    /\ ~sampling_done(k, cfg.M)
    /\ ~block_done(j)
    /\ Metropolis
    /\ j' = j + 1
    /\ UNCHANGED << cfg, pc, T, i, k, energies, magnetizations, rows, inits,
                    handed >>

Measure ==
    /\ pc = "sampling"
    /\ ~sampling_done(k, cfg.M)
    /\ block_done(j)
    /\ energies' = Append(energies, total_energy(lattice, cfg.N))
    /\ magnetizations' = Append(magnetizations, total_magnetization(lattice, cfg.N))
    /\ k' = k + 1
    /\ j' = 0
    /\ UNCHANGED << cfg, pc, rng, T, lattice, i, rows, prev, site, u, steps,
                    inits, handed >>

\* the estimator runs on both series and the row of this temperature is written
EmitRow ==
    /\ pc = "sampling"
    /\ sampling_done(k, cfg.M)
    /\ LET em == estimate(magnetizations)
           ee == estimate(energies)
       IN  IF em.ok /\ ee.ok
           THEN /\ rows' = Append(rows, ResultRow(T, em, ee))
                /\ pc' = "emitted"
           ELSE /\ rows' = rows
                /\ pc' = "failed"
    /\ handed' = lattice
    /\ UNCHANGED << cfg, rng, T, lattice, i, k, j, energies, magnetizations,
                    prev, site, u, steps, inits >>

NextTemperature ==
    /\ pc = "emitted"
    /\ has_next(cfg, T)
    /\ T' = T - cfg.dT
    /\ lattice' = warm_start(lattice, cfg.N, rng)
    /\ pc' = "warmup"
    /\ i' = 0 /\ k' = 0 /\ j' = 0
    /\ steps' = 0
    /\ energies' = << >> /\ magnetizations' = << >>
    /\ UNCHANGED << cfg, rng, rows, prev, site, u, inits, handed >>

Finish ==
    /\ pc = "emitted"
    /\ ~has_next(cfg, T)
    /\ pc' = "done"
    /\ UNCHANGED << cfg, rng, T, lattice, i, k, j, energies, magnetizations,
                    rows, prev, site, u, steps, inits, handed >>

Next ==
    \/ Reject
    \/ InitLattice
    \/ WarmupStep
    \/ StartSampling
    \/ SampleStep
    \/ Measure
    \/ EmitRow
    \/ NextTemperature
    \/ Finish

Spec == Init /\ [][Next]_vars

(* ------------------- properties of a single step() --------------------- *)
Stepped == pc = "stepped"

\* the energy change proposed by the last step() call
ProposalDE == deltaE(prev, cfg.N, site)

\* C1: one step() call flips the spin at the selected site whatever the draw
\* when dE <= 0, and when dE > 0 flips it exactly when the draw u is below
\* exp(-dE/T).
C1_AcceptanceRule ==
    Stepped =>
        IF ProposalDE <= 0
        THEN lattice[site] = -prev[site]
        ELSE (lattice[site] = -prev[site]) <=> (u * ExpPos(ProposalDE, T) < UDen * Scale)

\* an uphill proposal accepted on a non-zero draw
C1_Witness ==
    /\ pc = "stepped" /\ ProposalDE > 0 /\ u > 0
    /\ lattice[site] = -prev[site]

\* C2: one step() call changes at most the selected cell: a rejected proposal
\* leaves the whole lattice as it was, an accepted one negates the selected
\* cell and leaves every other cell as it was.
C2_StepFrame ==
    Stepped =>
        /\ \A s \in Sites(cfg.N) \ {site} : lattice[s] = prev[s]
        /\ DOMAIN lattice = DOMAIN prev
        /\ IF accept(ProposalDE, T, u)
           THEN lattice[site] = -prev[site]
           ELSE lattice = prev

\* an accepted proposal on a lattice with more than one cell
C2_Witness ==
    /\ pc = "stepped" /\ cfg.N >= 2
    /\ accept(ProposalDE, T, u) /\ lattice # prev

EnergyChange(l, n, s) == total_energy(flip(l, s), n) - total_energy(l, n)

Running == pc \in {"warmup", "sampling", "emitted", "done", "failed"}

\* C3: in every state of a sweep, once the lattice exists, every cell of the
\* N x N lattice holds exactly +1 or -1.
C3_SpinsArePlusMinusOne ==
    /\ (pc \in {"start", "rejected"} => lattice = << >>)
    /\ (Running => /\ DOMAIN lattice = Sites(cfg.N)
                   /\ \A s \in Sites(cfg.N) : lattice[s] \in {-1, 1})

\* a lattice handed to a later temperature and then changed by an accepted step
C3_Witness ==
    /\ pc = "sampling" /\ Len(rows) >= 1 /\ steps > 0
    /\ lattice # prev /\ lattice # handed

\* the counters of the driver in each phase of one temperature
C5_PhaseCounts ==
    /\ (pc = "warmup" =>
          /\ i <= W /\ steps = i /\ k = 0 /\ j = 0
          /\ energies = << >> /\ magnetizations = << >>)
    /\ (pc = "sampling" =>
          /\ i = W /\ k <= cfg.M /\ j <= Interval
          /\ (k = cfg.M => j = 0)
          /\ steps = W + k * Interval + j
          /\ Len(energies) = k /\ Len(magnetizations) = k)
    /\ (pc \in {"emitted", "done"} =>
          /\ steps = W + cfg.M * Interval
          /\ Len(energies) = cfg.M /\ Len(magnetizations) = cfg.M)

\* the phases follow each other in one direction, and a sampling transition
\* is either one step() call or one measurement after Interval step() calls
C5_PhaseOrder ==
    /\ (pc = "warmup" => pc' \in {"warmup", "sampling"})
    /\ (pc = "sampling" => pc' \in {"sampling", "emitted", "failed"})
    /\ (pc = "sampling" /\ pc' = "sampling" =>
          \/ steps' = steps + 1 /\ energies' = energies
                                /\ magnetizations' = magnetizations
          \/ /\ steps' = steps /\ j = Interval
             /\ Len(energies') = Len(energies) + 1
             /\ Len(magnetizations') = Len(magnetizations) + 1)

\* C5: at one temperature the driver first makes exactly W step() calls and
\* records nothing, then M times makes exactly Interval step() calls and
\* records one energy and one magnetization, and ends with both series of
\* length M after W + M * Interval step() calls; it never goes back to warm-up.
C5_DriverPhases == [] C5_PhaseCounts /\ [][C5_PhaseOrder]_vars

\* a driver that has finished a temperature with at least two blocks
C5_Witness ==
    /\ pc = "emitted" /\ cfg.M >= 2
    /\ steps = W + cfg.M * Interval /\ Len(energies) = cfg.M

\* the rows written so far are T_max, T_max - dT, ... in this order
DescendingFromTmax ==
    \A r \in 1 .. Len(rows) :
        /\ rows[r].temperature = cfg.T_max - (r - 1) * cfg.dT
        /\ rows[r].temperature >= cfg.T_min

Divisible == (cfg.T_max - cfg.T_min) % cfg.dT = 0

C7_WarmStart ==
    /\ (Running => inits = 1)
    /\ (pc = "emitted" => lattice = handed)
    /\ (pc = "warmup" /\ i = 0 /\ Len(rows) >= 1 => lattice = handed)

\* a third temperature about to start its warm-up from the lattice handed
\* over, which the last step() call of the previous temperature had changed
C7_Witness ==
    /\ pc = "warmup" /\ i = 0 /\ Len(rows) >= 2
    /\ lattice = handed /\ lattice # prev

InRangeWithParity(m, n) ==
    /\ -(n * n) <= m /\ m <= n * n
    /\ (m + n * n) % 2 = 0

\* C8: every recorded magnetization is (+1 cells) - (-1 cells) of the lattice
\* it was measured on, lies in [-N^2, N^2] and has the parity of N^2; an
\* accepted step changes total_magnetization() by +2 or -2 and a rejected
\* step leaves it unchanged.
C8_Magnetization ==
    /\ \A x \in 1 .. Len(magnetizations) :
          InRangeWithParity(magnetizations[x], cfg.N)
    /\ (pc = "sampling" /\ j = 0 /\ k >= 1 =>
          magnetizations[k] = CountOf(lattice, cfg.N, 1) - CountOf(lattice, cfg.N, -1))
    /\ (pc \in {"warmup", "sampling"} /\ steps > 0 =>
          LET d == total_magnetization(lattice, cfg.N) - total_magnetization(prev, cfg.N)
          IN  IF accept(ProposalDE, T, u) THEN d \in {-2, 2} ELSE d = 0)

\* a series whose last two recorded magnetizations differ
C8_Witness ==
    /\ pc = "sampling" /\ j = 0 /\ k >= 2
    /\ magnetizations[k] # magnetizations[k - 1]

\* C9: a configuration with T <= 0 in its range, N <= 0 or M <= 0 is rejected
\* at validation: no lattice is initialized, no step() call is made, nothing
\* is measured and no row is written.
C9_InvalidRejected ==
    (cfg.T_min <= 0 \/ cfg.T_max <= 0 \/ cfg.N <= 0 \/ cfg.M <= 0) =>
        /\ pc \in {"start", "rejected"}
        /\ lattice = << >> /\ inits = 0 /\ steps = 0
        /\ energies = << >> /\ magnetizations = << >> /\ rows = << >>

\* a rejected configuration whose only fault is a temperature range reaching 0
C9_Witness ==
    /\ pc = "rejected"
    /\ cfg.N > 0 /\ cfg.M > 0 /\ cfg.T_max > 0 /\ cfg.T_min <= 0

IsConstant(xs) == \A x \in 1 .. Len(xs) : xs[x] = xs[1]

\* C10: a series of length M >= 1 whose values are all equal gets its common
\* value as mean, error 0 and correlation time 0, no arithmetic error is
\* raised, and the row of that temperature is written and the sweep goes on.
C10_ConstantSeries ==
    /\ (pc = "failed" => ~IsConstant(energies) /\ ~IsConstant(magnetizations))
    /\ (pc \in {"emitted", "done"} /\ IsConstant(energies) =>
          LET row == rows[Len(rows)]
          IN  /\ row.mean_energy = FP * energies[1]
              /\ row.error_energy = 0
              /\ row.correlation_time_energy = 0)
    /\ (pc \in {"emitted", "done"} /\ IsConstant(magnetizations) =>
          LET row == rows[Len(rows)]
          IN  /\ row.mean_magnetization = FP * magnetizations[1]
              /\ row.error_magnetization = 0
              /\ row.correlation_time_magnetization = 0)

\* a later temperature's warm-up after a row written from two constant series
\* of at least two measurements
C10_Witness ==
    /\ pc = "warmup" /\ Len(rows) >= 1 /\ cfg.M >= 2
    /\ rows[Len(rows)].error_energy = 0
    /\ rows[Len(rows)].error_magnetization = 0
    /\ rows[Len(rows)].mean_energy # 0

====
